---- MODULE Spec2Model ----
(***************************************************************************)
(* The training controller of main.py: optional resume from a checkpoint,  *)
(* evaluate-only mode, the epoch loop (learning-rate step, training        *)
(* batches, periodic validation, best-metric tracking) and save_checkpoint *)
(* with its copy to the best-model file.                                   *)
(*                                                                         *)
(* Validation scores (top1.avg, a float in 0..100) are abstracted to the   *)
(* integers 0..MaxScore; only their order is used by main().  Model and    *)
(* optimizer state dictionaries are abstracted to [base, steps]: where the *)
(* parameters came from and how many optimizer steps were applied since.   *)
(***************************************************************************)
EXTENDS Integers, Sequences, FiniteSets, TLC

\* ------------------------------------------------------------------ bounds
MaxEpochs == 3
MaxScore == 2
MaxFreq == 2
MaxBatches == 2
MaxSegments == 2
MaxNorm == 2
MaxValue == 2
MaxWeight == 2
MaxCalls == 3
MaxClasses == 3
MaxRows == 2

VARIABLES
    pc,            \* position of main()
    args,          \* parsed arguments: evaluate, resume, start_epoch, epochs, eval_freq
    resume_isfile, \* os.path.isfile(args.resume)
    checkpoint,    \* the record torch.load(args.resume) returns
    train_len,     \* len(train_loader)
    best_prec1,    \* the module global
    model_sd,      \* model.state_dict()
    optim_sd,      \* optimizer.state_dict()
    next_epoch,    \* next index of range(args.start_epoch, args.epochs)
    epoch,         \* loop variable of the epoch loop
    i,             \* batch index inside train()
    prec1,         \* last value returned by validate() inside the loop
    is_best,       \* last value of is_best
    ckpt_file,     \* save_models/<pref>_checkpoint.pth.tar
    best_file,     \* <pref>_model_best.pth.tar
    best_before,   \* history: best_prec1 held when the last validate() returned
    best_resumed,  \* history: best_prec1 when the resume section was left
    log,           \* history: the operations performed so far, in order
    meter,         \* an AverageMeter under test
    fresh,         \* a second AverageMeter, created when the first is reset
    output,        \* accuracy(): the logits, one row of class scores per sample
    target,        \* accuracy(): the true class of each sample
    topk,          \* accuracy(): the requested ranks
    res            \* accuracy(): the returned list

vars == << pc, args, resume_isfile, checkpoint, train_len, best_prec1, model_sd,
           optim_sd, next_epoch, epoch, i, prec1, is_best, ckpt_file, best_file,
           best_before, best_resumed, log, meter, fresh, output, target, topk, res >>

\* ----------------------------------------------------------------- values
Scores == 0..MaxScore

\* best_prec1 = 0 at module level
DefaultBestPrec1 == 0

\* the default of args.start_epoch when no checkpoint is loaded
DefaultStartEpoch == 0

NoEpoch == -1

FreshSd == [base |-> "fresh", steps |-> 0]

SavedSd == [base |-> "saved", steps |-> 0]

\* optimizer.step(): one more update applied to the parameters
StepSd(sd) == [sd EXCEPT !.steps = @ + 1]

\* the records a resume file can hold
Checkpoints ==
    [epoch : 0..MaxEpochs, best_prec1 : Scores,
     state_dict : {SavedSd}, optimizer : {SavedSd}]

NoData == [epoch |-> NoEpoch, best_prec1 |-> 0, state_dict |-> FreshSd, optimizer |-> FreshSd]

\* file contents: absent, left by an earlier run ("old"), completely
\* written by this run ("full"), or cut short by a failed write ("partial")
AbsentFile == [kind |-> "absent", data |-> NoData]

OldFile == [kind |-> "old", data |-> NoData]

FullFile(d) == [kind |-> "full", data |-> d]

PartialFile(d) == [kind |-> "partial", data |-> d]

Event(name, e, v) == [ev |-> name, epoch |-> e, val |-> v]

Max(a, b) == IF a >= b THEN a ELSE b

\* the variables of the tracker and of accuracy(), which main(), train()
\* and validate() are modelled without
unitVars == << meter, fresh, output, target, topk, res >>

\* AverageMeter.reset(): val, avg, sum and count are 0 (avg as a fraction)
ResetMeter == [val |-> 0, avg |-> [num |-> 0, den |-> 1], sum |-> 0, count |-> 0,
               raised |-> FALSE]

UnitIdle ==
    /\ meter = ResetMeter
    /\ fresh = ResetMeter
    /\ output = << >>
    /\ target = << >>
    /\ topk = << >>
    /\ res = << >>

\* ------------------------------------------------------------------- Init
Init ==
    /\ pc = "resume"
    /\ UnitIdle
    /\ args \in [evaluate : BOOLEAN, resume : BOOLEAN,
                 start_epoch : {DefaultStartEpoch},
                 epochs : 0..MaxEpochs, eval_freq : 1..MaxFreq]
    /\ resume_isfile \in BOOLEAN
    /\ (~args.resume => ~resume_isfile)
    /\ checkpoint \in Checkpoints
    /\ (~resume_isfile => checkpoint = [epoch |-> 0, best_prec1 |-> 0,
                                         state_dict |-> SavedSd, optimizer |-> SavedSd])
    /\ train_len \in 1..MaxBatches
    /\ best_prec1 = DefaultBestPrec1
    /\ model_sd = FreshSd
    /\ optim_sd = FreshSd
    /\ next_epoch = NoEpoch
    /\ epoch = NoEpoch
    /\ i = 0
    /\ prec1 = 0
    /\ is_best = FALSE
    /\ ckpt_file \in {AbsentFile, OldFile}
    /\ best_file \in {AbsentFile, OldFile}
    /\ best_before = DefaultBestPrec1
    /\ best_resumed = DefaultBestPrec1
    /\ log = << >>

\* ------------------------------------------------- resume (lines 61-73)
\* variant: the checkpoint's epoch is not taken as the start epoch
ResumeLoadKeepsStartEpoch ==
    /\ pc = "resume"
    /\ args.resume /\ resume_isfile
    /\ best_prec1' = checkpoint.best_prec1
    /\ model_sd' = checkpoint.state_dict
    /\ optim_sd' = checkpoint.optimizer
    /\ best_resumed' = checkpoint.best_prec1
    /\ log' = Append(log, Event("loaded", checkpoint.epoch, checkpoint.best_prec1))
    /\ pc' = "mode"
    /\ UNCHANGED << args, resume_isfile, checkpoint, train_len, next_epoch, epoch, i,
                    prec1, is_best, ckpt_file, best_file, best_before, unitVars >>

\* args.resume given and the file exists: install the checkpoint
ResumeLoad ==
    /\ pc = "resume"
    /\ args.resume /\ resume_isfile
    /\ args' = [args EXCEPT !.start_epoch = checkpoint.epoch]
    /\ best_prec1' = checkpoint.best_prec1
    /\ model_sd' = checkpoint.state_dict
    /\ optim_sd' = checkpoint.optimizer
    /\ best_resumed' = checkpoint.best_prec1
    /\ log' = Append(log, Event("loaded", checkpoint.epoch, checkpoint.best_prec1))
    /\ pc' = "mode"
    /\ UNCHANGED << resume_isfile, checkpoint, train_len, next_epoch, epoch, i, prec1, is_best,
                    ckpt_file, best_file, best_before, unitVars >>

\* variant: a missing resume file ends the run
ResumeMissingAborts ==
    /\ pc = "resume"
    /\ args.resume /\ ~resume_isfile
    /\ log' = Append(log, Event("no checkpoint found", NoEpoch, 0))
    /\ pc' = "failed"
    /\ UNCHANGED << args, resume_isfile, checkpoint, train_len, best_prec1, model_sd,
                    optim_sd, next_epoch, epoch, i, prec1, is_best, ckpt_file, best_file,
                    best_before, best_resumed, unitVars >>

\* args.resume given but no file there: only a message
ResumeMissing ==
    /\ pc = "resume"
    /\ args.resume /\ ~resume_isfile
    /\ log' = Append(log, Event("no checkpoint found", NoEpoch, 0))
    /\ pc' = "mode"
    /\ UNCHANGED << args, resume_isfile, checkpoint, train_len, best_prec1, model_sd,
                    optim_sd, next_epoch, epoch, i, prec1, is_best, ckpt_file, best_file,
                    best_before, best_resumed, unitVars >>

\* no args.resume
ResumeSkip ==
    /\ pc = "resume"
    /\ ~args.resume
    /\ pc' = "mode"
    /\ UNCHANGED << args, resume_isfile, checkpoint, train_len, best_prec1, model_sd,
                    optim_sd, next_epoch, epoch, i, prec1, is_best, ckpt_file, best_file,
                    best_before, best_resumed, log, unitVars >>

\* ------------------------------------------ evaluate-only (lines 114-116)
\* variant: the return after the validation pass is missing
EvaluateThenTrain ==
    /\ pc = "mode"
    /\ args.evaluate
    /\ \E s \in Scores : log' = Append(log, Event("validate", NoEpoch, s))
    /\ next_epoch' = args.start_epoch
    /\ pc' = "for"
    /\ UNCHANGED << args, resume_isfile, checkpoint, train_len, best_prec1, model_sd,
                    optim_sd, epoch, i, prec1, is_best, ckpt_file,
                    best_file, best_before, best_resumed, unitVars >>

\* validate(val_loader, model, criterion, 0); return -- the score is dropped
EvaluateOnly ==
    /\ pc = "mode"
    /\ args.evaluate
    /\ \E s \in Scores : log' = Append(log, Event("validate", NoEpoch, s))
    /\ pc' = "done"
    /\ UNCHANGED << args, resume_isfile, checkpoint, train_len, best_prec1, model_sd,
                    optim_sd, next_epoch, epoch, i, prec1, is_best, ckpt_file,
                    best_file, best_before, best_resumed, unitVars >>

\* ------------------------------------------------ epoch loop (lines 118-138)
\* range(args.start_epoch, args.epochs) is built
EnterLoop ==
    /\ pc = "mode"
    /\ ~args.evaluate
    /\ next_epoch' = args.start_epoch
    /\ pc' = "for"
    /\ UNCHANGED << args, resume_isfile, checkpoint, train_len, best_prec1, model_sd,
                    optim_sd, epoch, i, prec1, is_best, ckpt_file, best_file,
                    best_before, best_resumed, log, unitVars >>

\* variant: the range includes args.epochs itself
ForNextInclusive ==
    /\ pc = "for"
    /\ next_epoch <= args.epochs
    /\ epoch' = next_epoch
    /\ next_epoch' = next_epoch + 1
    /\ pc' = "sched"
    /\ UNCHANGED << args, resume_isfile, checkpoint, train_len, best_prec1, model_sd,
                    optim_sd, i, prec1, is_best, ckpt_file, best_file,
                    best_before, best_resumed, log, unitVars >>

ForNext ==
    /\ pc = "for"
    /\ next_epoch < args.epochs
    /\ epoch' = next_epoch
    /\ next_epoch' = next_epoch + 1
    /\ pc' = "sched"
    /\ UNCHANGED << args, resume_isfile, checkpoint, train_len, best_prec1, model_sd,
                    optim_sd, i, prec1, is_best, ckpt_file, best_file,
                    best_before, best_resumed, log, unitVars >>

ForExit ==
    /\ pc = "for"
    /\ next_epoch >= args.epochs
    /\ pc' = "done"
    /\ UNCHANGED << args, resume_isfile, checkpoint, train_len, best_prec1, model_sd,
                    optim_sd, next_epoch, epoch, i, prec1, is_best, ckpt_file,
                    best_file, best_before, best_resumed, log, unitVars >>

\* scheduler.step(), then train() is entered
SchedulerStep ==
    /\ pc = "sched"
    /\ log' = Append(log, Event("scheduler.step", epoch, 0))
    /\ i' = 0
    /\ pc' = "train"
    /\ UNCHANGED << args, resume_isfile, checkpoint, train_len, best_prec1, model_sd,
                    optim_sd, next_epoch, epoch, prec1, is_best, ckpt_file,
                    best_file, best_before, best_resumed, unitVars >>

\* variant: the schedule is stepped with every batch
TrainBatchStepsSchedule ==
    /\ pc = "train"
    /\ i < train_len
    /\ model_sd' = StepSd(model_sd)
    /\ optim_sd' = StepSd(optim_sd)
    /\ log' = log \o << Event("scheduler.step", epoch, 0),
                        Event("optimizer.step", epoch, i) >>
    /\ i' = i + 1
    /\ UNCHANGED << pc, args, resume_isfile, checkpoint, train_len, best_prec1,
                    next_epoch, epoch, prec1, is_best, ckpt_file, best_file,
                    best_before, best_resumed, unitVars >>

\* one iteration of the batch loop of train(), ending in optimizer.step()
TrainBatch ==
    /\ pc = "train"
    /\ i < train_len
    /\ model_sd' = StepSd(model_sd)
    /\ optim_sd' = StepSd(optim_sd)
    /\ log' = Append(log, Event("optimizer.step", epoch, i))
    /\ i' = i + 1
    /\ UNCHANGED << pc, args, resume_isfile, checkpoint, train_len, best_prec1,
                    next_epoch, epoch, prec1, is_best, ckpt_file, best_file,
                    best_before, best_resumed, unitVars >>

\* the loader is exhausted: train() returns
TrainReturn ==
    /\ pc = "train"
    /\ i = train_len
    /\ log' = Append(log, Event("trained", epoch, 0))
    /\ pc' = "if_eval"
    /\ UNCHANGED << args, resume_isfile, checkpoint, train_len, best_prec1, model_sd,
                    optim_sd, next_epoch, epoch, i, prec1, is_best, ckpt_file,
                    best_file, best_before, best_resumed, unitVars >>

\* variant: the final epoch is not evaluated unless the frequency says so
EvalDueNoFinal(e) == (e + 1) % args.eval_freq = 0

\* the condition of line 126
EvalDue(e) == (e + 1) % args.eval_freq = 0 \/ e = args.epochs - 1

\* prec1 = validate(...)
Validate ==
    /\ pc = "if_eval"
    /\ EvalDue(epoch)
    /\ \E s \in Scores :
          /\ prec1' = s
          /\ log' = Append(log, Event("validate", epoch, s))
    /\ best_before' = best_prec1
    /\ pc' = "remember"
    /\ UNCHANGED << args, resume_isfile, checkpoint, train_len, best_prec1, model_sd,
                    optim_sd, next_epoch, epoch, i, is_best, ckpt_file, best_file,
                    best_resumed, unitVars >>

NoValidate ==
    /\ pc = "if_eval"
    /\ ~EvalDue(epoch)
    /\ pc' = "for"
    /\ UNCHANGED << args, resume_isfile, checkpoint, train_len, best_prec1, model_sd,
                    optim_sd, next_epoch, epoch, i, prec1, is_best, ckpt_file,
                    best_file, best_before, best_resumed, log, unitVars >>

\* variant: a score equal to the best also counts as a new best
IsBestOrEqual(p, b) == p >= b

\* is_best = prec1 > best_prec1
IsBest(p, b) == p > b

\* variant: the best is overwritten by the latest score
NewBestOverwrite(p, b) == p

\* best_prec1 = max(prec1, best_prec1)
NewBest(p, b) == Max(p, b)

\* lines 130-132: the comparison, the update, and the call of save_checkpoint
RememberBest ==
    /\ pc = "remember"
    /\ is_best' = IsBest(prec1, best_prec1)
    /\ best_prec1' = NewBest(prec1, best_prec1)
    /\ log' = Append(log, Event("save_checkpoint", epoch, 0))
    /\ pc' = "save"
    /\ UNCHANGED << args, resume_isfile, checkpoint, train_len, model_sd, optim_sd,
                    next_epoch, epoch, i, prec1, ckpt_file, best_file, best_before,
                    best_resumed, unitVars >>

\* variant: the record carries the epoch just trained, not the next one
SaveStateSameEpoch ==
    [epoch |-> epoch, best_prec1 |-> best_prec1,
     state_dict |-> model_sd, optimizer |-> optim_sd]

\* the dictionary passed to save_checkpoint (lines 132-138)
SaveState ==
    [epoch |-> epoch + 1, best_prec1 |-> best_prec1,
     state_dict |-> model_sd, optimizer |-> optim_sd]

\* ------------------------------------------ save_checkpoint (lines 246-252)
\* variant: the write returns before the file is complete
TorchSaveUnflushed ==
    /\ pc = "save"
    /\ ckpt_file' = PartialFile(SaveState)
    /\ log' = Append(log, Event("torch.save", epoch, best_prec1))
    /\ pc' = "if_best"
    /\ UNCHANGED << args, resume_isfile, checkpoint, train_len, best_prec1, model_sd,
                    optim_sd, next_epoch, epoch, i, prec1, is_best, best_file,
                    best_before, best_resumed, unitVars >>

\* torch.save(state, filename) completes
TorchSave ==
    /\ pc = "save"
    /\ ckpt_file' = FullFile(SaveState)
    /\ log' = Append(log, Event("torch.save", epoch, best_prec1))
    /\ pc' = "if_best"
    /\ UNCHANGED << args, resume_isfile, checkpoint, train_len, best_prec1, model_sd,
                    optim_sd, next_epoch, epoch, i, prec1, is_best, best_file,
                    best_before, best_resumed, unitVars >>

\* torch.save raises (disk full, permission denied): the file is untouched
\* or cut short, and the exception leaves main()
TorchSaveFails ==
    /\ pc = "save"
    /\ ckpt_file' \in {ckpt_file, PartialFile(SaveState)}
    /\ log' = Append(log, Event("torch.save failed", epoch, 0))
    /\ pc' = "failed"
    /\ UNCHANGED << args, resume_isfile, checkpoint, train_len, best_prec1, model_sd,
                    optim_sd, next_epoch, epoch, i, prec1, is_best, best_file,
                    best_before, best_resumed, unitVars >>

\* variant: the copy is made whatever is_best says
CopyAlways ==
    /\ pc = "if_best"
    /\ best_file' = ckpt_file
    /\ log' = Append(log, Event("copyfile", epoch, 0))
    /\ pc' = "for"
    /\ UNCHANGED << args, resume_isfile, checkpoint, train_len, best_prec1, model_sd,
                    optim_sd, next_epoch, epoch, i, prec1, is_best, ckpt_file,
                    best_before, best_resumed, unitVars >>

\* if is_best: shutil.copyfile(filename, best_name) completes
CopyBest ==
    /\ pc = "if_best"
    /\ is_best
    /\ best_file' = ckpt_file
    /\ log' = Append(log, Event("copyfile", epoch, 0))
    /\ pc' = "for"
    /\ UNCHANGED << args, resume_isfile, checkpoint, train_len, best_prec1, model_sd,
                    optim_sd, next_epoch, epoch, i, prec1, is_best, ckpt_file,
                    best_before, best_resumed, unitVars >>

\* shutil.copyfile raises: before the destination is opened (untouched) or
\* after it was truncated and partly written
CopyBestFails ==
    /\ pc = "if_best"
    /\ is_best
    /\ best_file' \in {best_file, PartialFile(ckpt_file.data)}
    /\ log' = Append(log, Event("copyfile failed", epoch, 0))
    /\ pc' = "failed"
    /\ UNCHANGED << args, resume_isfile, checkpoint, train_len, best_prec1, model_sd,
                    optim_sd, next_epoch, epoch, i, prec1, is_best, ckpt_file,
                    best_before, best_resumed, unitVars >>

NoCopy ==
    /\ pc = "if_best"
    /\ ~is_best
    /\ pc' = "for"
    /\ UNCHANGED << args, resume_isfile, checkpoint, train_len, best_prec1, model_sd,
                    optim_sd, next_epoch, epoch, i, prec1, is_best, ckpt_file,
                    best_file, best_before, best_resumed, log, unitVars >>

Next ==
    \/ ResumeLoad
    \/ ResumeMissing
    \/ ResumeSkip
    \/ EvaluateOnly
    \/ EnterLoop
    \/ ForNext
    \/ ForExit
    \/ SchedulerStep
    \/ TrainBatch
    \/ TrainReturn
    \/ Validate
    \/ NoValidate
    \/ RememberBest
    \/ TorchSave
    \/ TorchSaveFails
    \/ CopyBest
    \/ CopyBestFails
    \/ NoCopy

Spec == Init /\ [][Next]_vars

\* the main thread always takes its next step
LiveSpec == Spec /\ WF_vars(Next)

\* ---------------------------------------------- start-up (lines 25-59)
\* main() from parse_args to the creation of the schedule, as its own
\* process: the variables of the later sections stay as Init leaves them
Datasets == {"ucf101", "hmdb51", "kinetics", "meitu", "other"}

\* num_class of lines 26-33, as an event value
NumClass(d) ==
    CASE d = "ucf101" -> 101
      [] d = "hmdb51" -> 51
      [] d = "kinetics" -> 400
      [] d = "meitu" -> 50

\* args.finetune: not given, a path without a file, a path of a file
FinetunePaths == {"none", "missing", "file"}

LossTypes == {"nll", "other"}

FinetunedSd == [base |-> "finetune", steps |-> 0]

\* the variables the start-up section never touches
startFrame == << resume_isfile, checkpoint, train_len, best_prec1, optim_sd,
                 next_epoch, epoch, i, prec1, is_best, ckpt_file, best_file,
                 best_before, best_resumed, unitVars >>

StartInit ==
    /\ pc = "dataset"
    /\ UnitIdle
    /\ args \in [dataset : Datasets, finetune : FinetunePaths, loss_type : LossTypes,
                 resume : BOOLEAN, evaluate : BOOLEAN]
    /\ resume_isfile = FALSE
    /\ checkpoint = [epoch |-> 0, best_prec1 |-> 0,
                     state_dict |-> SavedSd, optimizer |-> SavedSd]
    /\ train_len = 1
    /\ best_prec1 = DefaultBestPrec1
    /\ model_sd = NoData.state_dict
    /\ optim_sd = NoData.optimizer
    /\ next_epoch = NoEpoch
    /\ epoch = NoEpoch
    /\ i = 0
    /\ prec1 = 0
    /\ is_best = FALSE
    /\ ckpt_file = AbsentFile
    /\ best_file = AbsentFile
    /\ best_before = DefaultBestPrec1
    /\ best_resumed = DefaultBestPrec1
    /\ log = << >>

\* lines 26-33: a known dataset fixes num_class
SelectDataset ==
    /\ pc = "dataset"
    /\ args.dataset # "other"
    /\ log' = Append(log, Event("num_class", NoEpoch, NumClass(args.dataset)))
    /\ pc' = "model"
    /\ UNCHANGED << args, model_sd >>
    /\ UNCHANGED startFrame

\* lines 34-35
UnknownDataset ==
    /\ pc = "dataset"
    /\ args.dataset = "other"
    /\ log' = Append(log, Event("Unknown dataset", NoEpoch, 0))
    /\ pc' = "failed"
    /\ UNCHANGED << args, model_sd >>
    /\ UNCHANGED startFrame

\* line 39: model = ShuffleNet(num_classes=num_class)
CreateModel ==
    /\ pc = "model"
    /\ model_sd' = FreshSd
    /\ log' = Append(log, Event("ShuffleNet", NoEpoch, 0))
    /\ pc' = "cuda"
    /\ UNCHANGED args
    /\ UNCHANGED startFrame

\* line 40: torch.nn.DataParallel(model, device_ids=args.gpus).cuda()
ModelToCuda ==
    /\ pc = "cuda"
    /\ log' = Append(log, Event("DataParallel.cuda", NoEpoch, 0))
    /\ pc' = "finetune"
    /\ UNCHANGED << args, model_sd >>
    /\ UNCHANGED startFrame

\* lines 41-45: the finetune file exists, its weights are loaded
FinetuneLoad ==
    /\ pc = "finetune"
    /\ args.finetune = "file"
    /\ model_sd' = FinetunedSd
    /\ log' = Append(log, Event("finetune", NoEpoch, 0))
    /\ pc' = "criterion"
    /\ UNCHANGED args
    /\ UNCHANGED startFrame

\* lines 46-47: only a message
FinetuneMissing ==
    /\ pc = "finetune"
    /\ args.finetune = "missing"
    /\ log' = Append(log, Event("no finetune model found", NoEpoch, 0))
    /\ pc' = "criterion"
    /\ UNCHANGED << args, model_sd >>
    /\ UNCHANGED startFrame

FinetuneSkip ==
    /\ pc = "finetune"
    /\ args.finetune = "none"
    /\ pc' = "criterion"
    /\ UNCHANGED << args, model_sd, log >>
    /\ UNCHANGED startFrame

\* lines 50-51
CreateCriterion ==
    /\ pc = "criterion"
    /\ args.loss_type = "nll"
    /\ log' = Append(log, Event("CrossEntropyLoss", NoEpoch, 0))
    /\ pc' = "optimizer"
    /\ UNCHANGED << args, model_sd >>
    /\ UNCHANGED startFrame

\* lines 52-53: raise ValueError("Unknown loss type")
UnknownLossType ==
    /\ pc = "criterion"
    /\ args.loss_type # "nll"
    /\ log' = Append(log, Event("Unknown loss type", NoEpoch, 0))
    /\ pc' = "failed"
    /\ UNCHANGED << args, model_sd >>
    /\ UNCHANGED startFrame

\* lines 55-58: torch.optim.SGD(model.parameters(), ...)
CreateOptimizer ==
    /\ pc = "optimizer"
    /\ log' = Append(log, Event("SGD", NoEpoch, 0))
    /\ pc' = "scheduler"
    /\ UNCHANGED << args, model_sd >>
    /\ UNCHANGED startFrame

\* line 59: StepLR(optimizer, step_size=30, gamma=0.1)
CreateScheduler ==
    /\ pc = "scheduler"
    /\ log' = Append(log, Event("StepLR", NoEpoch, 0))
    /\ pc' = "started"
    /\ UNCHANGED << args, model_sd >>
    /\ UNCHANGED startFrame

StartNext ==
    \/ SelectDataset
    \/ UnknownDataset
    \/ CreateModel
    \/ ModelToCuda
    \/ FinetuneLoad
    \/ FinetuneMissing
    \/ FinetuneSkip
    \/ CreateCriterion
    \/ UnknownLossType
    \/ CreateOptimizer
    \/ CreateScheduler

StartSpec == StartInit /\ [][StartNext]_vars

\* ------------------------- one epoch: train() then validate() (141-243)
\* train() and validate() batch by batch, as their own process; the loader
\* hands out input tensors whose segment dimension is 1..MaxSegments
NoClip == -1

BatchEvent(name, b, v) == [ev |-> name, epoch |-> epoch, batch |-> b, val |-> v]

\* the variables train() and validate() never touch
epochFrame == << args, resume_isfile, checkpoint, train_len, best_prec1, next_epoch,
                 epoch, prec1, is_best, ckpt_file, best_file, best_before,
                 best_resumed, unitVars >>

\* input.size(1) of the batch fetched last
InputSegments == log[Len(log)].val

EpochInit ==
    /\ pc = "t_next"
    /\ UnitIdle
    /\ args \in [num_segments : 1..MaxSegments,
                 clip_gradient : {NoClip} \cup 1..MaxNorm]
    /\ resume_isfile = FALSE
    /\ checkpoint = [epoch |-> 0, best_prec1 |-> 0,
                     state_dict |-> SavedSd, optimizer |-> SavedSd]
    /\ train_len \in 1..MaxBatches
    /\ best_prec1 = DefaultBestPrec1
    /\ model_sd = FreshSd
    /\ optim_sd = FreshSd
    /\ next_epoch = 1
    /\ epoch = 0
    /\ i = 0
    /\ prec1 = 0
    /\ is_best = FALSE
    /\ ckpt_file = AbsentFile
    /\ best_file = AbsentFile
    /\ best_before = DefaultBestPrec1
    /\ best_resumed = DefaultBestPrec1
    /\ log = << >>

\* line 152: the loader delivers batch i
TrainNextBatch ==
    /\ pc = "t_next"
    /\ i < train_len
    /\ \E segs \in 1..MaxSegments : log' = Append(log, BatchEvent("batch", i, segs))
    /\ pc' = "t_forward"
    /\ UNCHANGED << i, model_sd, optim_sd >>
    /\ UNCHANGED epochFrame

\* line 152: the loader is exhausted, train() returns and validate() starts
TrainLoopEnds ==
    /\ pc = "t_next"
    /\ i = train_len
    /\ log' = Append(log, BatchEvent("train returns", i, 0))
    /\ i' = 0
    /\ pc' = "v_next"
    /\ UNCHANGED << model_sd, optim_sd >>
    /\ UNCHANGED epochFrame

\* lines 161-164: model(input_var[:, i]) for i in range(args.num_segments),
\* stack, mean, log_softmax; val = the number of segments that were used
Forward ==
    /\ pc = "t_forward"
    /\ InputSegments >= args.num_segments
    /\ log' = Append(log, BatchEvent("forward", i, args.num_segments))
    /\ pc' = "t_loss"
    /\ UNCHANGED << i, model_sd, optim_sd >>
    /\ UNCHANGED epochFrame

\* line 161: an index beyond the segment dimension raises IndexError
ForwardIndexError ==
    /\ pc = "t_forward"
    /\ InputSegments < args.num_segments
    /\ log' = Append(log, BatchEvent("IndexError", i, InputSegments))
    /\ pc' = "failed"
    /\ UNCHANGED << i, model_sd, optim_sd >>
    /\ UNCHANGED epochFrame

\* line 165
Loss ==
    /\ pc = "t_loss"
    /\ log' = Append(log, BatchEvent("loss", i, 0))
    /\ pc' = "t_measure"
    /\ UNCHANGED << i, model_sd, optim_sd >>
    /\ UNCHANGED epochFrame

\* lines 168-171: accuracy and the three tracker updates
Measure ==
    /\ pc = "t_measure"
    /\ log' = Append(log, BatchEvent("measure", i, 0))
    /\ pc' = "t_zero"
    /\ UNCHANGED << i, model_sd, optim_sd >>
    /\ UNCHANGED epochFrame

\* line 175
ZeroGrad ==
    /\ pc = "t_zero"
    /\ log' = Append(log, BatchEvent("zero_grad", i, 0))
    /\ pc' = "t_backward"
    /\ UNCHANGED << i, model_sd, optim_sd >>
    /\ UNCHANGED epochFrame

\* variant: the clipping section is skipped
BackwardSkipsClip ==
    /\ pc = "t_backward"
    /\ log' = Append(log, BatchEvent("backward", i, 0))
    /\ pc' = "t_step"
    /\ UNCHANGED << i, model_sd, optim_sd >>
    /\ UNCHANGED epochFrame

\* line 177
Backward ==
    /\ pc = "t_backward"
    /\ log' = Append(log, BatchEvent("backward", i, 0))
    /\ pc' = "t_clip"
    /\ UNCHANGED << i, model_sd, optim_sd >>
    /\ UNCHANGED epochFrame

\* lines 179-180: clip_grad_norm returns the norm before clipping
ClipGradient ==
    /\ pc = "t_clip"
    /\ args.clip_gradient # NoClip
    /\ \E total_norm \in 0..MaxNorm :
          /\ log' = Append(log, BatchEvent("clip_grad_norm", i, total_norm))
          /\ pc' = IF total_norm > args.clip_gradient THEN "t_report" ELSE "t_step"
    /\ UNCHANGED << i, model_sd, optim_sd >>
    /\ UNCHANGED epochFrame

\* lines 181-182: the report of a norm above the threshold
ClipReport ==
    /\ pc = "t_report"
    /\ log' = Append(log, BatchEvent("clipping gradient", i, 0))
    /\ pc' = "t_step"
    /\ UNCHANGED << i, model_sd, optim_sd >>
    /\ UNCHANGED epochFrame

\* line 179: args.clip_gradient is None
NoClipping ==
    /\ pc = "t_clip"
    /\ args.clip_gradient = NoClip
    /\ pc' = "t_step"
    /\ UNCHANGED << i, model_sd, optim_sd, log >>
    /\ UNCHANGED epochFrame

\* line 184
OptimizerStep ==
    /\ pc = "t_step"
    /\ model_sd' = StepSd(model_sd)
    /\ optim_sd' = StepSd(optim_sd)
    /\ log' = Append(log, BatchEvent("optimizer.step", i, 0))
    /\ pc' = "t_end"
    /\ UNCHANGED i
    /\ UNCHANGED epochFrame

\* lines 187-198: batch time, the progress line, back to the loop head
TrainBatchEnds ==
    /\ pc = "t_end"
    /\ log' = Append(log, BatchEvent("batch done", i, 0))
    /\ i' = i + 1
    /\ pc' = "t_next"
    /\ UNCHANGED << model_sd, optim_sd >>
    /\ UNCHANGED epochFrame

\* line 211: the validation loader (of a length up to MaxBatches that
\* train() does not know) delivers batch i
ValNextBatch ==
    /\ pc = "v_next"
    /\ i < MaxBatches
    /\ \E segs \in 1..MaxSegments : log' = Append(log, BatchEvent("val batch", i, segs))
    /\ pc' = "v_forward"
    /\ UNCHANGED << i, model_sd, optim_sd >>
    /\ UNCHANGED epochFrame

\* line 217: output = model(input_var), no split into segments
ValForward ==
    /\ pc = "v_forward"
    /\ log' = Append(log, BatchEvent("val forward", i, InputSegments))
    /\ pc' = "v_loss"
    /\ UNCHANGED << i, model_sd, optim_sd >>
    /\ UNCHANGED epochFrame

\* line 218
ValLoss ==
    /\ pc = "v_loss"
    /\ log' = Append(log, BatchEvent("val loss", i, 0))
    /\ pc' = "v_measure"
    /\ UNCHANGED << i, model_sd, optim_sd >>
    /\ UNCHANGED epochFrame

\* lines 221-238: accuracy, tracker updates, batch time, the progress line
ValMeasure ==
    /\ pc = "v_measure"
    /\ log' = Append(log, BatchEvent("val measure", i, 0))
    /\ i' = i + 1
    /\ pc' = "v_next"
    /\ UNCHANGED << model_sd, optim_sd >>
    /\ UNCHANGED epochFrame

\* lines 240-243: the loader is exhausted, validate() returns top1.avg
ValReturn ==
    /\ pc = "v_next"
    /\ log' = Append(log, BatchEvent("validate returns", i, 0))
    /\ pc' = "done"
    /\ UNCHANGED << i, model_sd, optim_sd >>
    /\ UNCHANGED epochFrame

EpochNext ==
    \/ TrainNextBatch
    \/ TrainLoopEnds
    \/ Forward
    \/ ForwardIndexError
    \/ Loss
    \/ Measure
    \/ ZeroGrad
    \/ Backward
    \/ ClipGradient
    \/ ClipReport
    \/ NoClipping
    \/ OptimizerStep
    \/ TrainBatchEnds
    \/ ValNextBatch
    \/ ValForward
    \/ ValLoss
    \/ ValMeasure
    \/ ValReturn

EpochSpec == EpochInit /\ [][EpochNext]_vars

\* ------------------------------------------ AverageMeter (lines 255-270)
\* The tracked values (times, losses, percentages: floats) are abstracted to
\* the integers 0..MaxValue, and avg to the exact fraction sum/count in
\* lowest terms.
RECURSIVE Gcd(_, _)
Gcd(a, b) == IF b = 0 THEN a ELSE Gcd(b, a % b)

\* a / b for a >= 0, b > 0
Frac(a, b) == [num |-> a \div Gcd(a, b), den |-> b \div Gcd(a, b)]

\* the weights the callers pass: the default n = 1 (lines 154, 187, 228) and
\* input.size(0) of a delivered batch (lines 169-171, 223-225)
CallerWeights == 1..MaxWeight

MeterValues == 0..MaxValue

\* variant: reset() forgets to clear the sum
ResetKeepsSum(m) ==
    [m EXCEPT !.val = 0, !.avg = ResetMeter.avg, !.count = 0]

\* reset(), lines 260-264
Reset(m) ==
    [m EXCEPT !.val = 0, !.avg = ResetMeter.avg, !.sum = 0, !.count = 0]

\* variant: the average is computed before the count is increased
UpdateDividesFirst(m, v, n) ==
    IF m.count = 0
    THEN [m EXCEPT !.val = v, !.sum = m.sum + v * n, !.raised = TRUE]
    ELSE [m EXCEPT !.val = v, !.sum = m.sum + v * n,
                   !.avg = Frac(m.sum + v * n, m.count), !.count = m.count + n]

\* update(val, n), lines 266-270; a zero count makes line 270 raise
\* ZeroDivisionError with val, sum and count already assigned
Update(m, v, n) ==
    IF m.count + n = 0
    THEN [m EXCEPT !.val = v, !.sum = m.sum + v * n, !.count = m.count + n,
                   !.raised = TRUE]
    ELSE [m EXCEPT !.val = v, !.sum = m.sum + v * n, !.count = m.count + n,
                   !.avg = Frac(m.sum + v * n, m.count + n)]

MeterCall(name, v, n) == [ev |-> name, val |-> v, n |-> n]

\* the variables the tracker never touches
meterFrame == << pc, args, resume_isfile, checkpoint, train_len, best_prec1, model_sd,
                 optim_sd, next_epoch, epoch, i, prec1, is_best, ckpt_file, best_file,
                 best_before, best_resumed, output, target, topk, res >>

\* two trackers right after AverageMeter()
MeterInit ==
    /\ pc = "meter"
    /\ args = [print_freq |-> 1]
    /\ resume_isfile = FALSE
    /\ checkpoint = [epoch |-> 0, best_prec1 |-> 0,
                     state_dict |-> SavedSd, optimizer |-> SavedSd]
    /\ train_len = 1
    /\ best_prec1 = DefaultBestPrec1
    /\ model_sd = FreshSd
    /\ optim_sd = FreshSd
    /\ next_epoch = NoEpoch
    /\ epoch = NoEpoch
    /\ i = 0
    /\ prec1 = 0
    /\ is_best = FALSE
    /\ ckpt_file = AbsentFile
    /\ best_file = AbsentFile
    /\ best_before = DefaultBestPrec1
    /\ best_resumed = DefaultBestPrec1
    /\ log = << >>
    /\ meter = Reset(ResetMeter)
    /\ fresh = Reset(ResetMeter)
    /\ output = << >>
    /\ target = << >>
    /\ topk = << >>
    /\ res = << >>

\* the same update(v, n) on both trackers
MeterUpdate ==
    /\ Len(log) < MaxCalls
    /\ ~meter.raised
    /\ \E v \in MeterValues, n \in CallerWeights :
          /\ meter' = Update(meter, v, n)
          /\ fresh' = Update(fresh, v, n)
          /\ log' = Append(log, MeterCall("update", v, n))
    /\ UNCHANGED meterFrame

\* reset() of the first tracker, while the second is replaced by a new one
MeterReset ==
    /\ Len(log) < MaxCalls
    /\ ~meter.raised
    /\ meter' = Reset(meter)
    /\ fresh' = Reset(ResetMeter)
    /\ log' = Append(log, MeterCall("reset", 0, 0))
    /\ UNCHANGED meterFrame

MeterNext ==
    \/ MeterUpdate
    \/ MeterReset

MeterSpec == MeterInit /\ [][MeterNext]_vars

\* ---------------------------------------------- accuracy (lines 283-296)
\* A row of output is a sequence of scores, one per class; class id c of the
\* code is position c + 1 here.  The float percentages are abstracted to
\* exact fractions in lowest terms.

\* a row with distinct scores: the scores 0..n-1 rotated by r
Rot(n, r) == [c \in 1..n |-> (c + r) % n]

\* a row whose two highest scores are equal
TiedRow(n) == [c \in 1..n |-> IF c = n THEN Max(n - 2, 0) ELSE c - 1]

RowsOf(n) == {Rot(n, r) : r \in 0..(n - 1)} \cup {TiedRow(n)}

\* the ranks asked for: one, two, or three as in topk=(1,5) and (1,5,n);
\* n + 1 is more than the row has
TopkRequests(n) ==
    {<< k >> : k \in 1..(n + 1)}
       \cup {<< j, k >> : j \in 1..n, k \in 1..n}
       \cup {<< 1, k, n >> : k \in 1..n}

\* a batch of 4 rows over 10 classes, each true class ranked exactly 6th
ExampleOutput == [r \in 1..4 |-> Rot(10, r)]
ExampleTarget == [r \in 1..4 |-> CHOOSE c \in 1..10 : ExampleOutput[r][c] = 4]

\* max(topk), line 285
RECURSIVE MaxOf(_)
MaxOf(ks) == IF Len(ks) = 1 THEN ks[1] ELSE Max(ks[1], MaxOf(Tail(ks)))

\* the classes of `left` with the highest score in row
Best(row, left) == {c \in left : \A d \in left : row[d] <= row[c]}

\* variant: a class already taken can be taken again
RECURSIVE PredsFromKeepsChosen(_, _, _)
PredsFromKeepsChosen(row, left, k) ==
    IF k = 0 THEN {<< >>}
    ELSE UNION {{<< c >> \o p : p \in PredsFromKeepsChosen(row, left, k - 1)} :
                  c \in Best(row, left)}

\* output.topk(maxk, 1, True, True), line 288, for one row: the k classes
\* with the largest scores, largest first; the order among equal scores is
\* not specified, so every order is a possible result
RECURSIVE PredsFrom(_, _, _)
PredsFrom(row, left, k) ==
    IF k = 0 THEN {<< >>}
    ELSE UNION {{<< c >> \o p : p \in PredsFrom(row, left \ {c}, k - 1)} :
                  c \in Best(row, left)}

\* the possible values of pred (before the transpose of line 289)
PredChoices(out, maxk) ==
    {p \in [1..Len(out) -> UNION {PredsFrom(out[r], DOMAIN out[r], maxk) :
                                     r \in 1..Len(out)}] :
        \A r \in 1..Len(out) : p[r] \in PredsFrom(out[r], DOMAIN out[r], maxk)}

RECURSIVE SumOver(_, _)
SumOver(f, n) == IF n = 0 THEN 0 ELSE f[n] + SumOver(f, n - 1)

\* variant: only the k-th prediction is compared with the label
CorrectCountExactRank(pred, tgt, k) ==
    SumOver([r \in 1..Len(tgt) |->
                Cardinality({j \in {k} : j <= Len(pred[r]) /\ pred[r][j] = tgt[r]})],
            Len(tgt))

\* correct[:k].view(-1).float().sum(0), lines 290 and 294
CorrectCount(pred, tgt, k) ==
    SumOver([r \in 1..Len(tgt) |->
                Cardinality({j \in 1..k : j <= Len(pred[r]) /\ pred[r][j] = tgt[r]})],
            Len(tgt))

\* correct_k.mul_(100.0 / batch_size), line 295
Percent(correct_k, batch_size) == Frac(100 * correct_k, batch_size)

accFrame == << args, resume_isfile, checkpoint, train_len, best_prec1, model_sd,
               optim_sd, next_epoch, epoch, i, prec1, is_best, ckpt_file, best_file,
               best_before, best_resumed, log, meter, fresh, output, target, topk >>

\* the arguments of one call of accuracy
AccInit ==
    /\ pc = "acc_call"
    /\ args = [print_freq |-> 1]
    /\ resume_isfile = FALSE
    /\ checkpoint = [epoch |-> 0, best_prec1 |-> 0,
                     state_dict |-> SavedSd, optimizer |-> SavedSd]
    /\ train_len = 1
    /\ best_prec1 = DefaultBestPrec1
    /\ model_sd = FreshSd
    /\ optim_sd = FreshSd
    /\ next_epoch = NoEpoch
    /\ epoch = NoEpoch
    /\ i = 0
    /\ prec1 = 0
    /\ is_best = FALSE
    /\ ckpt_file = AbsentFile
    /\ best_file = AbsentFile
    /\ best_before = DefaultBestPrec1
    /\ best_resumed = DefaultBestPrec1
    /\ log = << >>
    /\ meter = ResetMeter
    /\ fresh = ResetMeter
    /\ res = << >>
    /\ \/ \E n \in 2..MaxClasses, b \in 1..MaxRows :
             /\ output \in [1..b -> RowsOf(n)]
             /\ target \in [1..b -> 1..n]
             /\ topk \in TopkRequests(n)
       \/ /\ output = ExampleOutput
          /\ target = ExampleTarget
          /\ topk = << 1, 5, 10 >>

\* lines 285-296 when every requested k is within the number of classes
Accuracy ==
    /\ pc = "acc_call"
    /\ MaxOf(topk) <= Len(output[1])
    /\ \E pred \in PredChoices(output, MaxOf(topk)) :
          res' = [j \in 1..Len(topk) |->
                     Percent(CorrectCount(pred, target, topk[j]), Len(target))]
    /\ pc' = "acc_done"
    /\ UNCHANGED accFrame

\* line 288 raises RuntimeError when maxk exceeds the number of classes
TopkOutOfRange ==
    /\ pc = "acc_call"
    /\ MaxOf(topk) > Len(output[1])
    /\ pc' = "acc_error"
    /\ UNCHANGED << accFrame, res >>

AccNext ==
    \/ Accuracy
    \/ TopkOutOfRange

AccSpec == AccInit /\ [][AccNext]_vars

\* ------------------------------------------------- reading the history
Positions(name) == {k \in 1..Len(log) : log[k].ev = name}

Count(name) == Cardinality(Positions(name))

LastEv == IF Len(log) = 0 THEN "none" ELSE log[Len(log)].ev

\* validate() calls made inside the epoch loop
LoopValidations == {k \in Positions("validate") : log[k].epoch # NoEpoch}

Resumed == args.resume /\ resume_isfile /\ pc # "resume"

WrittenThisRun(f) == f.kind \in {"full", "partial"}

\* ------------------------------------------------------------------- C1
\* C1: once the resume section is over, best_prec1 never decreases from one
\* step to the next, and no checkpoint or best file written by the run
\* carries a best_prec1 below the value the run was resumed with.
C1_BestPrec1Monotone ==
    [][pc # "resume" =>
         /\ best_prec1' >= best_prec1
         /\ best_prec1' >= best_resumed
         /\ (WrittenThisRun(ckpt_file') => ckpt_file'.data.best_prec1 >= best_resumed)
         /\ (WrittenThisRun(best_file') => best_file'.data.best_prec1 >= best_resumed)]_vars

\* a resumed run whose new epoch scored below the resumed best has saved
C1_Witness ==
    /\ Resumed
    /\ best_resumed > 0
    /\ pc = "if_best"
    /\ prec1 < best_resumed
    /\ ckpt_file.kind = "full"

\* ------------------------------------------------------------------- C2
\* C2: after the comparison of an evaluation inside the loop, is_best holds
\* exactly when the score just returned is strictly greater than the
\* best_prec1 held before, and best_prec1 is the maximum of the two.
C2_IsBestIffStrictlyGreater ==
    pc \in {"save", "if_best"} =>
        /\ (is_best <=> prec1 > best_before)
        /\ best_prec1 >= prec1
        /\ best_prec1 >= best_before
        /\ best_prec1 \in {prec1, best_before}

\* a score equal to a positive previous best did not set is_best
C2_Witness ==
    /\ pc = "save"
    /\ prec1 = best_before
    /\ best_before > 0
    /\ ~is_best

\* ------------------------------------------------------------------- C3
\* C3: for every epoch e whose training has returned and whose body is
\* over, a validation pass directly follows the training of e exactly when
\* (e+1) mod eval_freq = 0 or e = epochs-1; validation inside the loop only
\* ever directly follows the training of its own epoch, at most once per
\* epoch; a finished run that trained an epoch evaluated the final epoch.
C3_EvalExactlyWhenDue ==
    /\ \A k \in Positions("trained") :
          (k < Len(log) \/ pc # "if_eval") =>
             ( (k < Len(log) /\ log[k + 1].ev = "validate"
                             /\ log[k + 1].epoch = log[k].epoch)
               <=> ( (log[k].epoch + 1) % args.eval_freq = 0
                     \/ log[k].epoch = args.epochs - 1 ) )
    /\ \A k \in LoopValidations :
          /\ k > 1 /\ log[k - 1].ev = "trained" /\ log[k - 1].epoch = log[k].epoch
          /\ \A j \in LoopValidations : log[j].epoch = log[k].epoch => j = k
    /\ (pc = "done" /\ Count("trained") > 0 =>
          \E k \in LoopValidations : log[k].epoch = args.epochs - 1)

\* a finished run in which one epoch was skipped and the final epoch was
\* evaluated although (epochs mod eval_freq) is not zero
C3_Witness ==
    /\ pc = "done"
    /\ args.epochs % args.eval_freq # 0
    /\ Count("trained") > Cardinality(LoopValidations)
    /\ \E k \in LoopValidations : log[k].epoch = args.epochs - 1

\* ------------------------------------------------------------------- C4
\* C4: inside the loop save_checkpoint is called directly after the
\* comparison of each evaluation pass, once per evaluated epoch, and never
\* without an evaluation of the same epoch before it; the record written
\* after epoch e has epoch = e+1 and the updated best_prec1, which is the
\* maximum of the previous best and the score, so never below the score.
C4_SaveOncePerEvaluation ==
    /\ \A k \in LoopValidations :
          (k < Len(log)) =>
              /\ log[k + 1].ev = "save_checkpoint"
              /\ log[k + 1].epoch = log[k].epoch
    /\ (pc \notin {"remember"} => Cardinality(LoopValidations) = Count("save_checkpoint"))
    /\ \A k \in Positions("save_checkpoint") :
          /\ k > 1 /\ log[k - 1].ev = "validate" /\ log[k - 1].epoch = log[k].epoch
          /\ \A j \in Positions("save_checkpoint") : log[j].epoch = log[k].epoch => j = k
    /\ (pc = "if_best" =>
          /\ ckpt_file.kind = "full"
          /\ ckpt_file.data.epoch = epoch + 1
          /\ ckpt_file.data.best_prec1 = Max(best_before, prec1)
          /\ ckpt_file.data.best_prec1 >= prec1
          /\ ckpt_file.data.state_dict = model_sd
          /\ ckpt_file.data.optimizer = optim_sd)

\* the second save of a run has been written, for an epoch that scored above
\* the previous best, after an epoch without evaluation
C4_Witness ==
    /\ pc = "if_best"
    /\ Count("save_checkpoint") = 2
    /\ Count("trained") > 2
    /\ prec1 > best_before
    /\ ckpt_file.data.epoch = epoch + 1

\* ------------------------------------------------------------------- C5
\* the highest validation score returned inside the loop so far
MaxSeen == CHOOSE m \in Scores :
              /\ \E k \in LoopValidations : log[k].val = m
              /\ \A k \in LoopValidations : log[k].val <= m

\* the first evaluated epoch that reached MaxSeen
FirstMaxEpoch ==
    LET first == CHOOSE k \in LoopValidations :
                    /\ log[k].val = MaxSeen
                    /\ \A j \in LoopValidations : log[j].val = MaxSeen => k <= j
    IN  log[first].epoch

\* every save_checkpoint call made so far has returned
SavesCompleted == pc \in {"for", "sched", "train", "if_eval", "done"}

\* C5: whenever every save so far has completed and the best file was
\* written by this run, the best file is the complete checkpoint of the
\* first evaluated epoch that reached the highest score of the run, with the
\* weights of that epoch, and its best_prec1 is the controller's; and a save
\* for a score that does not exceed the previous best leaves it unchanged.
C5_BestFileIsBestEpoch ==
    /\ [](SavesCompleted /\ WrittenThisRun(best_file) =>
            /\ best_file.kind = "full"
            /\ LoopValidations # {}
            /\ best_file.data.epoch = FirstMaxEpoch + 1
            /\ best_file.data.best_prec1 = MaxSeen
            /\ best_file.data.best_prec1 = best_prec1
            /\ best_file.data.state_dict.steps =
                  (FirstMaxEpoch + 1 - args.start_epoch) * train_len)
    /\ [][(pc \in {"save", "if_best"} /\ ~(prec1 > best_before))
             => (best_file' = best_file)]_vars

\* the best file holds an earlier epoch's checkpoint after a later epoch,
\* with an equal score, was saved
C5_Witness ==
    /\ pc = "for"
    /\ LastEv = "torch.save"
    /\ best_file.kind = "full"
    /\ ckpt_file.kind = "full"
    /\ best_file.data.epoch < ckpt_file.data.epoch
    /\ prec1 = best_file.data.best_prec1

\* ------------------------------------------------------------------- C6
NoLoopWork ==
    /\ Count("scheduler.step") = 0
    /\ Count("optimizer.step") = 0
    /\ Count("trained") = 0
    /\ Count("save_checkpoint") = 0
    /\ Count("torch.save") = 0

ResumeInstalled ==
    /\ Len(log) > 0
    /\ log[1].ev = "loaded"
    /\ Count("loaded") = 1
    /\ args.start_epoch = checkpoint.epoch
    /\ best_resumed = checkpoint.best_prec1
    /\ (pc = "mode" =>
          /\ Len(log) = 1
          /\ best_prec1 = checkpoint.best_prec1
          /\ model_sd = checkpoint.state_dict
          /\ optim_sd = checkpoint.optimizer)
    /\ \A k \in Positions("scheduler.step") \cup Positions("optimizer.step") :
          log[k].epoch >= checkpoint.epoch
    /\ (Count("scheduler.step") > 0 =>
          \E k \in Positions("scheduler.step") :
              /\ log[k].epoch = checkpoint.epoch
              /\ \A j \in Positions("scheduler.step") : k <= j)

\* the claim as written: a resumed checkpoint whose epoch equals
\* args.epochs leads to no training, no evaluation and no save
C6_Original ==
    Resumed =>
        /\ ResumeInstalled
        /\ (checkpoint.epoch = args.epochs =>
               NoLoopWork /\ Count("validate") = 0)

\* C6 (amended): when the resume file exists, the checkpoint's epoch,
\* best_prec1, weights and optimizer state are installed before any other
\* operation, the first epoch index trained is the checkpoint's epoch, and
\* in a run that is not evaluate-only a checkpoint whose epoch equals
\* args.epochs leads to no training, no evaluation and no save.
C6_ResumeInstallsCheckpoint ==
    Resumed =>
        /\ ResumeInstalled
        /\ (checkpoint.epoch = args.epochs =>
               /\ NoLoopWork
               /\ (~args.evaluate => Count("validate") = 0))

\* a run resumed at a positive epoch below args.epochs trained its first batch
C6_Witness ==
    /\ Resumed
    /\ checkpoint.epoch > 0
    /\ Count("optimizer.step") = 1
    /\ epoch = checkpoint.epoch

\* a run resumed at epoch = args.epochs > 0 has finished without any work
C6_WitnessNoWork ==
    /\ Resumed
    /\ ~args.evaluate
    /\ checkpoint.epoch = args.epochs
    /\ args.epochs > 0
    /\ pc = "done"

\* ------------------------------------------------------------------- C7
\* C7: when a resume path is given and no file is there, the absence is
\* reported as the first operation and the run goes on to the mode switch
\* with best_prec1 = 0, fresh weights and optimizer state and start epoch
\* zero; the first epoch it trains is epoch 0.
C7_MissingResumeIsNotFatal ==
    (args.resume /\ ~resume_isfile /\ pc # "resume") =>
        /\ Len(log) > 0
        /\ log[1].ev = "no checkpoint found"
        /\ Count("loaded") = 0
        /\ (Len(log) = 1 =>
              /\ pc \in {"mode", "for", "sched", "done"}
              /\ best_prec1 = 0
              /\ model_sd = FreshSd
              /\ optim_sd = FreshSd)
        /\ args.start_epoch = 0
        /\ best_resumed = 0
        /\ (args.epochs > 0 /\ ~args.evaluate /\ pc \notin {"mode", "for", "sched"} =>
              /\ Count("scheduler.step") > 0
              /\ \E k \in Positions("scheduler.step") :
                    /\ log[k].epoch = 0
                    /\ \A j \in Positions("scheduler.step") : k <= j)

\* after the report the run trained a batch of epoch 0
C7_Witness ==
    /\ args.resume /\ ~resume_isfile
    /\ Len(log) > 0
    /\ log[1].ev = "no checkpoint found"
    /\ Count("optimizer.step") = 1
    /\ epoch = 0

\* ------------------------------------------------------------------- C8
\* C8: in evaluate-only mode no learning-rate step, training batch,
\* optimizer step or checkpoint write ever happens, the weights and files
\* stay as the initialisation left them, best_prec1 stays what the resume
\* section left, and the run ends right after its single validation pass.
C8_EvaluateOnly ==
    args.evaluate =>
        /\ pc \in {"resume", "mode", "done"}
        /\ NoLoopWork
        /\ Count("copyfile") = 0
        /\ ~WrittenThisRun(ckpt_file)
        /\ ~WrittenThisRun(best_file)
        /\ best_prec1 = best_resumed
        /\ (pc # "resume" =>
              model_sd = (IF Resumed THEN checkpoint.state_dict ELSE FreshSd))
        /\ Count("validate") = (IF pc = "done" THEN 1 ELSE 0)
        /\ (pc = "done" => LastEv = "validate" /\ ~ENABLED Next)

\* an evaluate-only run has ended after a score above best_prec1
C8_Witness ==
    /\ args.evaluate
    /\ args.epochs > 0
    /\ pc = "done"
    /\ LastEv = "validate"
    /\ log[Len(log)].val > best_prec1

\* ------------------------------------------------------------------- C9
\* C9: the copy to the best file is only reached with is_best true and with
\* the checkpoint file completely written by the same call; a copy (or a
\* failed copy) directly follows the completed write of its epoch; when the
\* copy has completed the best file equals that checkpoint file.
C9_CopyAfterCompleteWrite ==
    /\ (pc = "if_best" =>
          /\ LastEv = "torch.save"
          /\ ckpt_file = FullFile(SaveState))
    /\ \A k \in Positions("copyfile") \cup Positions("copyfile failed") :
          /\ k > 1
          /\ log[k - 1].ev = "torch.save"
          /\ log[k - 1].epoch = log[k].epoch
    /\ (LastEv \in {"copyfile", "copyfile failed"} => is_best)
    /\ (LastEv = "copyfile" => best_file = ckpt_file)
    /\ (LastEv = "copyfile" /\ pc \in {"for", "done"} =>
          best_file = FullFile(SaveState))

\* a copy has completed over a best file already written by this run
C9_Witness ==
    /\ LastEv = "copyfile"
    /\ Count("copyfile") = 2
    /\ best_file.kind = "full"
    /\ best_file.data.epoch = epoch + 1

\* ------------------------------------------------------------------ C10
\* C10: a failure of the write or of the copy ends the run on the spot, and
\* in every state the best file is absent, as the earlier run left it, or a
\* complete copy of a completely written checkpoint -- never partial.
C10_NoPartialBestFile ==
    /\ (Count("torch.save failed") + Count("copyfile failed") > 0 =>
          /\ pc = "failed"
          /\ LastEv \in {"torch.save failed", "copyfile failed"})
    /\ best_file.kind \in {"absent", "old", "full"}

\* ------------------------------------------------------------------ C17
\* C17: the schedule is stepped once per epoch entered and never twice for
\* one epoch; a step is directly followed by batch 0 of its epoch and is
\* never directly preceded by a batch, a validation pass or the call of
\* save_checkpoint; the number of steps is the number of epochs trained,
\* plus one while an epoch is being trained.
C17_ScheduleStepsOncePerEpoch ==
    /\ \A k \in Positions("scheduler.step") :
          /\ \A j \in Positions("scheduler.step") : log[j].epoch = log[k].epoch => j = k
          /\ (k < Len(log) =>
                /\ log[k + 1].ev = "optimizer.step"
                /\ log[k + 1].epoch = log[k].epoch
                /\ log[k + 1].val = 0)
          /\ (k > 1 => log[k - 1].ev \notin {"optimizer.step", "validate",
                                             "save_checkpoint", "scheduler.step"})
    /\ \A k \in Positions("optimizer.step") :
          \E j \in Positions("scheduler.step") :
              j < k /\ log[j].epoch = log[k].epoch
    /\ Count("scheduler.step") = Count("trained") + (IF pc = "train" THEN 1 ELSE 0)

\* three epochs were trained, with a validation pass and a copy among them
C17_Witness ==
    /\ pc = "done"
    /\ Count("trained") = 3
    /\ Count("scheduler.step") = 3
    /\ Count("copyfile") > 0
    /\ train_len > 1

\* ------------------------------------------------------------------ C18
\* StepLR is built anew in every run (line 59) and no checkpoint restores
\* it: its position is the number of scheduler.step() calls of this run
SchedulerPosition == Count("scheduler.step")

\* C18: when the training of epoch index e' starts, the schedule has been
\* stepped e'+1 times, in a run started at epoch zero and in a resumed run.
C18_SchedulePositionFollowsEpoch ==
    pc = "train" => SchedulerPosition = epoch + 1

\* ------------------------------------------------------------------ C20
\* the epoch indices whose training has returned, in order
TrainedEpochs == SelectSeq(log, LAMBDA x : x.ev = "trained")

\* the epoch indices whose schedule step was taken, in order
SteppedEpochs == SelectSeq(log, LAMBDA x : x.ev = "scheduler.step")

\* C20: a run that is not evaluate-only trains start_epoch, start_epoch+1,
\* ... in increasing order, each once; when it is done it has trained
\* exactly the indices up to epochs-1, and nothing at all when start_epoch
\* >= epochs; and every run ends, done or stopped by a failed save.
C20_TrainsEachEpochOnceAndEnds ==
    /\ [](pc # "resume" /\ ~args.evaluate =>
            /\ \A j \in 1..Len(TrainedEpochs) :
                  TrainedEpochs[j].epoch = args.start_epoch + j - 1
            /\ \A j \in 1..Len(SteppedEpochs) :
                  SteppedEpochs[j].epoch = args.start_epoch + j - 1
            /\ Len(SteppedEpochs) - Len(TrainedEpochs) \in {0, 1}
            /\ (pc = "done" =>
                  /\ Len(TrainedEpochs) = Max(0, args.epochs - args.start_epoch)
                  /\ Len(SteppedEpochs) = Len(TrainedEpochs)
                  /\ Count("optimizer.step") = Len(TrainedEpochs) * train_len)
            /\ (args.start_epoch >= args.epochs =>
                  /\ NoLoopWork
                  /\ Count("validate") = 0
                  /\ ~WrittenThisRun(ckpt_file)
                  /\ ~WrittenThisRun(best_file)))
    /\ <>(pc \in {"done", "failed"})

\* a run resumed at a positive epoch has ended after two more epochs
C20_Witness ==
    /\ Resumed
    /\ ~args.evaluate
    /\ args.start_epoch > 0
    /\ pc = "done"
    /\ Len(TrainedEpochs) = 2
    /\ TrainedEpochs[2].epoch = args.epochs - 1

\* ------------------------------------------------------------------ C12
\* C12: when the unknown loss type is raised, no model has been built or
\* moved to the accelerators, no finetune weights have been loaded, and no
\* optimizer, schedule or loader exists.
C12_UnknownLossBeforeAllocation ==
    LastEv = "Unknown loss type" =>
        /\ Count("ShuffleNet") = 0
        /\ Count("DataParallel.cuda") = 0
        /\ Count("finetune") = 0
        /\ model_sd = NoData.state_dict
        /\ Count("SGD") = 0
        /\ Count("StepLR") = 0

\* ------------------------------------------------------------------ C11
\* C11: every training batch whose segment dimension differs from
\* args.num_segments, smaller or larger, is answered by the indexing error
\* as its next operation: no forward result, loss, backward pass or
\* optimizer step is ever made for it.
C11_SegmentMismatchFailsFast ==
    \A k \in Positions("batch") :
        (log[k].val # args.num_segments /\ k < Len(log)) =>
            /\ log[k + 1].ev = "IndexError"
            /\ pc = "failed"

\* ------------------------------------------------------------------ C19
\* the operation that may directly follow operation a in the history
Follows(a, b) ==
    CASE a.ev = "batch" -> b.ev \in {"forward", "IndexError"} /\ b.batch = a.batch
      [] a.ev = "forward" -> b.ev = "loss" /\ b.batch = a.batch
      [] a.ev = "loss" -> b.ev = "measure" /\ b.batch = a.batch
      [] a.ev = "measure" -> b.ev = "zero_grad" /\ b.batch = a.batch
      [] a.ev = "zero_grad" -> b.ev = "backward" /\ b.batch = a.batch
      [] a.ev = "backward" ->
            /\ b.batch = a.batch
            /\ b.ev = (IF args.clip_gradient = NoClip THEN "optimizer.step"
                                                     ELSE "clip_grad_norm")
      [] a.ev = "clip_grad_norm" ->
            /\ b.batch = a.batch
            /\ b.ev = (IF a.val > args.clip_gradient THEN "clipping gradient"
                                                     ELSE "optimizer.step")
      [] a.ev = "clipping gradient" -> b.ev = "optimizer.step" /\ b.batch = a.batch
      [] a.ev = "optimizer.step" -> b.ev = "batch done" /\ b.batch = a.batch
      [] a.ev = "batch done" ->
            \/ b.ev = "batch" /\ b.batch = a.batch + 1
            \/ b.ev = "train returns"
      [] a.ev = "train returns" -> b.ev \in {"val batch", "validate returns"}
      [] a.ev = "val batch" -> b.ev = "val forward" /\ b.batch = a.batch
      [] a.ev = "val forward" -> b.ev = "val loss" /\ b.batch = a.batch
      [] a.ev = "val loss" -> b.ev = "val measure" /\ b.batch = a.batch
      [] a.ev = "val measure" ->
            \/ b.ev = "val batch" /\ b.batch = a.batch + 1
            \/ b.ev = "validate returns"
      [] OTHER -> FALSE

\* C19: in the history of an epoch every operation is followed by the one
\* the order forward, loss, measurements, zero_grad, backward, clipping
\* (only with a threshold; the report only for a norm above it), optimizer
\* step prescribes; a batch whose end was reached made exactly one
\* optimizer step, before the next batch was fetched; and no optimizer step
\* comes after train() returned, that is during validation.
C19_BatchStepOrder ==
    /\ \A k \in 1..(Len(log) - 1) : Follows(log[k], log[k + 1])
    /\ \A k \in Positions("batch done") :
          Cardinality({j \in Positions("optimizer.step") :
                          j < k /\ log[j].batch = log[k].batch}) = 1
    /\ \A j, k \in Positions("optimizer.step") : log[j].batch = log[k].batch => j = k
    /\ Count("optimizer.step") = model_sd.steps
    /\ \A k \in Positions("train returns") :
          \A j \in Positions("optimizer.step") : j < k
    /\ \A k \in Positions("clipping gradient") : args.clip_gradient # NoClip

\* a second batch was stepped after a clipped first one, and validation ran
C19_Witness ==
    /\ pc = "done"
    /\ Count("optimizer.step") = 2
    /\ Count("clipping gradient") = 1
    /\ Count("clip_grad_norm") = 2
    /\ Count("val measure") > 0

\* ------------------------------------------------------------------ C13
\* the calls made since the last reset (all calls when there was none)
RECURSIVE SinceReset(_)
SinceReset(h) ==
    IF h = << >> \/ h[Len(h)].ev = "reset" THEN << >>
    ELSE Append(SinceReset(SubSeq(h, 1, Len(h) - 1)), h[Len(h)])

RECURSIVE SumVW(_)
SumVW(h) == IF h = << >> THEN 0 ELSE h[1].val * h[1].n + SumVW(Tail(h))

RECURSIVE SumW(_)
SumW(h) == IF h = << >> THEN 0 ELSE h[1].n + SumW(Tail(h))

\* C13: after every update, avg is the weighted mean of the pairs given
\* since the last reset (avg * sum of weights = sum of value*weight), val is
\* the last value, sum and count are the two sums; and the tracker that was
\* reset equals, field by field, the new tracker given the same calls.
C13_AvgIsWeightedMean ==
    /\ (LastEv = "update" =>
          /\ meter.val = log[Len(log)].val
          /\ meter.sum = SumVW(SinceReset(log))
          /\ meter.count = SumW(SinceReset(log))
          /\ meter.avg.num * SumW(SinceReset(log))
                = SumVW(SinceReset(log)) * meter.avg.den
          /\ meter.avg.den > 0)
    /\ meter.val = fresh.val
    /\ meter.sum = fresh.sum
    /\ meter.count = fresh.count
    /\ meter.avg = fresh.avg

\* an update with a non-zero value, a reset, then an update: the average is
\* that of the last update alone
C13_Witness ==
    /\ Len(log) = 3
    /\ log[1].ev = "update" /\ log[1].val > 0
    /\ log[2].ev = "reset"
    /\ log[3].ev = "update" /\ log[3].n > 1
    /\ meter.avg = Frac(log[3].val, 1)
    /\ meter.val > 0

\* ------------------------------------------------------------------ C14
\* C14: no call sequence with the callers' weights makes line 270 divide by
\* zero: the division is never raised, and after every update the count it
\* divided by is positive.
C14_NoDivisionByZero ==
    /\ ~meter.raised
    /\ ~fresh.raised
    /\ (LastEv = "update" => meter.count > 0 /\ meter.count >= log[Len(log)].n)

\* the first update after a reset has divided by its own weight
C14_Witness ==
    /\ Len(log) > 2
    /\ log[Len(log) - 1].ev = "reset"
    /\ LastEv = "update"
    /\ meter.count = log[Len(log)].n
    /\ ~meter.raised

\* ------------------------------------------------------------------ C15
\* the rank of the true class of row r: 1 + the number of higher scores
Rank(r) == 1 + Cardinality({c \in DOMAIN output[r] : output[r][c] > output[r][target[r]]})

DistinctScores ==
    \A r \in 1..Len(output) :
       \A c, d \in DOMAIN output[r] : c # d => output[r][c] # output[r][d]

\* C15: for rows with distinct scores, the j-th result is 100 * (number of
\* rows whose true class has rank <= topk[j]) / batch, one result per
\* requested k in the order requested; when every true class is ranked 6th,
\* the results for (1, 5, 10) are 0, 0 and 100.
C15_TopkAccuracyValue ==
    (pc = "acc_done" /\ DistinctScores) =>
       /\ Len(res) = Len(topk)
       /\ \A j \in 1..Len(topk) :
             res[j] = Frac(100 * Cardinality({r \in 1..Len(output) : Rank(r) <= topk[j]}),
                           Len(target))
       /\ ((topk = << 1, 5, 10 >> /\ \A r \in 1..Len(output) : Rank(r) = 6) =>
              res = << Frac(0, 1), Frac(0, 1), Frac(100, 1) >>)

C15_Witness ==
    /\ pc = "acc_done"
    /\ Len(output) = 4
    /\ DistinctScores
    /\ \A r \in 1..Len(output) : Rank(r) = 6
    /\ topk = << 1, 5, 10 >>
    /\ res = << Frac(0, 1), Frac(0, 1), Frac(100, 1) >>

\* ------------------------------------------------------------------ C16
FracLeq(a, b) == a.num * b.den <= b.num * a.den

\* C16: the results are monotone in k (a result for a smaller k is never
\* above a result for a larger k), and a result for k = number of classes
\* is 100, for every batch, tied scores included.
C16_MonotoneInK ==
    pc = "acc_done" =>
       /\ \A j, l \in 1..Len(topk) : topk[j] <= topk[l] => FracLeq(res[j], res[l])
       /\ \A j \in 1..Len(topk) :
             topk[j] = Len(output[1]) => res[j] = Frac(100, 1)

\* a batch with a tied row whose results for (1, k, n) grow from below 100
C16_Witness ==
    /\ pc = "acc_done"
    /\ ~DistinctScores
    /\ Len(topk) = 3
    /\ topk[3] = Len(output[1])
    /\ ~FracLeq(res[2], res[1])
    /\ res[3] = Frac(100, 1)
====
